---- MODULE Spec2Model ----
(***************************************************************************)
(* Model of the four macro_rules! helpers of src/lib.rs (bundle!, expose!, *)
(* package!, extend!).  An invocation is a macro name and the token        *)
(* sequence between its parentheses; expansion matches the tokens against  *)
(* the macro's single rule, transcribes the right-hand side, and the host  *)
(* compiler then processes the emitted items.                              *)
(***************************************************************************)
EXTENDS Integers, Sequences, FiniteSets, TLC

\* ------------------------------------------------------------------ bounds
MaxLen == 4

\* ------------------------------------------------------------------ tokens
Idents   == {"a", "b"}
StrLits  == {"\"p\"", "\"q\""}
NumLits  == {"1"}
Comma    == ","
Plus     == "+"
Tokens   == Idents \cup StrLits \cup NumLits \cup {Comma, Plus}

Macros   == {"bundle", "expose", "package", "extend"}
Contexts == {"crate_root", "nested_module"}

TokenSeqs == UNION {[1..k -> Tokens] : k \in 0..MaxLen}

VARIABLES macro, tokens, ctx, pc, bindings, out, declared

vars == <<macro, tokens, ctx, pc, bindings, out, declared>>

\* ----------------------------------------------------- fragment specifiers
\* $x:ident matches exactly one identifier token.
IdentLen(toks) ==
    IF toks # <<>> /\ Head(toks) \in Idents THEN 1 ELSE 0

IsPrimary(t) == t \in Idents \cup StrLits \cup NumLits

\* $x:expr parses one expression greedily: a primary followed by any number
\* of `+ primary`.  An operator that is not followed by an operand is a
\* parse error inside the fragment (no back-tracking): length 0.
RECURSIVE ExprTail(_, _)
ExprTail(toks, n) ==
    IF n < Len(toks) /\ toks[n + 1] = Plus
    THEN IF n + 1 < Len(toks) /\ IsPrimary(toks[n + 2])
         THEN ExprTail(toks, n + 2)
         ELSE 0
    ELSE n

ExprLen(toks) ==
    IF toks # <<>> /\ IsPrimary(Head(toks)) THEN ExprTail(toks, 1) ELSE 0

FragLen(kind, toks) ==
    IF kind = "ident" THEN IdentLen(toks) ELSE ExprLen(toks)

\* ------------------------------------------------------- macro matchers
Frag(name, kind)   == [t |-> "frag", name |-> name, kind |-> kind]
Tok(tok)           == [t |-> "tok", tok |-> tok]
Rep(body, sep, op) == [t |-> "rep", body |-> body, sep |-> sep, op |-> op]

\* expose! with `+` instead of `*`: at least one identifier required.
exposeMatcher_Plus ==
    << Rep(<< Frag("module", "ident") >>, << Tok(Comma) >>, "+"),
       Rep(<< Tok(Comma) >>, <<>>, "?") >>

\* expose! without the optional trailing comma `$(,)?`.
exposeMatcher_NoTrailing ==
    << Rep(<< Frag("module", "ident") >>, << Tok(Comma) >>, "*") >>

bundleMatcher  == << Frag("path", "expr") >>

exposeMatcher  == << Rep(<< Frag("module", "ident") >>, << Tok(Comma) >>, "*"),
                     Rep(<< Tok(Comma) >>, <<>>, "?") >>

packageMatcher == << Rep(<< Frag("module", "ident") >>, << Tok(Comma) >>, "*"),
                     Rep(<< Tok(Comma) >>, <<>>, "?") >>

extendMatcher  == <<>>

MatcherOf(m) ==
    CASE m = "bundle"  -> bundleMatcher
      [] m = "expose"  -> exposeMatcher
      [] m = "package" -> packageMatcher
      [] m = "extend"  -> extendMatcher

\* The macro_rules! matcher: the set of ways a matcher consumes a prefix of
\* the tokens, each with the fragments it bound, in match order.
RECURSIVE MatchSeq(_, _), MatchElem(_, _), MatchMore(_, _)

MatchSeq(pat, toks) ==
    IF pat = <<>>
    THEN {[binds |-> <<>>, rest |-> toks]}
    ELSE UNION { { [binds |-> h.binds \o r.binds, rest |-> r.rest]
                   : r \in MatchSeq(Tail(pat), h.rest) }
                 : h \in MatchElem(Head(pat), toks) }

MatchMore(e, m) ==
    {m} \cup UNION { MatchMore(e, [binds |-> m.binds \o n.binds, rest |-> n.rest])
                     : n \in { x \in MatchSeq(e.sep \o e.body, m.rest)
                               : Len(x.rest) < Len(m.rest) } }

MatchElem(e, toks) ==
    CASE e.t = "tok" ->
           IF toks # <<>> /\ Head(toks) = e.tok
           THEN {[binds |-> <<>>, rest |-> Tail(toks)]}
           ELSE {}
      [] e.t = "frag" ->
           LET n == FragLen(e.kind, toks) IN
           IF n = 0 THEN {}
           ELSE {[binds |-> << [name |-> e.name, val |-> SubSeq(toks, 1, n)] >>,
                  rest  |-> SubSeq(toks, n + 1, Len(toks))]}
      [] e.t = "rep" ->
           LET zero  == {[binds |-> <<>>, rest |-> toks]}
               first == MatchSeq(e.body, toks)
           IN CASE e.op = "?" -> zero \cup first
                [] e.op = "*" -> zero \cup UNION {MatchMore(e, f) : f \in first}
                [] e.op = "+" -> UNION {MatchMore(e, f) : f \in first}

\* A matcher that stops at the longest well-formed prefix and ignores the
\* tokens after it.
Parses_Prefix(pat, toks) ==
    { m \in MatchSeq(pat, toks) :
        \A n \in MatchSeq(pat, toks) : Len(m.rest) <= Len(n.rest) }

\* A rule matches when exactly one parse consumes the whole invocation.
Parses(pat, toks) == { m \in MatchSeq(pat, toks) : m.rest = <<>> }

Accepts(pat, toks) == Cardinality(Parses(pat, toks)) = 1

BindingsOf(pat, toks) == (CHOOSE m \in Parses(pat, toks) : TRUE).binds

\* ----------------------------------------------------- macro transcribers
UseStmt(attrs, vis, path) ==
    [kind |-> "use", attrs |-> attrs, vis |-> vis, path |-> path,
     glob |-> TRUE, args |-> <<>>]

MacroCall(path, args) ==
    [kind |-> "macro_call", attrs |-> <<>>, vis |-> "priv", path |-> path,
     glob |-> FALSE, args |-> args]

Bound(binds, name) == SelectSeq(binds, LAMBDA b : b.name = name)

\* bundle! with a hard-coded directory instead of the forwarded $path.
bundleTranscribe_Fixed(binds) ==
    << MacroCall(<<"automod", "dir">>, << "\"p\"" >>) >>

bundleTranscribe(binds) ==
    << MacroCall(<<"automod", "dir">>, Bound(binds, "path")[1].val) >>

\* expose! emitting the statements in reverse order.
exposeTranscribe_Reversed(binds) ==
    LET ms == Bound(binds, "module") IN
    [i \in 1..Len(ms) |->
        UseStmt(<<"allow(unused_imports)">>, "pub", ms[Len(ms) + 1 - i].val)]

\* expose! skipping an identifier it has already emitted.
RECURSIVE DropRepeats(_)
DropRepeats(ms) ==
    IF ms = <<>> THEN <<>>
    ELSE LET front == SubSeq(ms, 1, Len(ms) - 1)
             last  == ms[Len(ms)]
         IN IF \E j \in 1..Len(front) : front[j].val = last.val
            THEN DropRepeats(front)
            ELSE Append(DropRepeats(front), last)

exposeTranscribe_Dedup(binds) ==
    LET ms == DropRepeats(Bound(binds, "module")) IN
    [i \in 1..Len(ms) |->
        UseStmt(<<"allow(unused_imports)">>, "pub", ms[i].val)]

exposeTranscribe(binds) ==
    LET ms == Bound(binds, "module") IN
    [i \in 1..Len(ms) |->
        UseStmt(<<"allow(unused_imports)">>, "pub", ms[i].val)]

\* package! without the `pub` on the emitted statements.
packageTranscribe_Private(binds) ==
    LET ms == Bound(binds, "module") IN
    [i \in 1..Len(ms) |->
        UseStmt(<<"allow(unused_imports)">>, "priv", <<"super">> \o ms[i].val)]

packageTranscribe(binds) ==
    LET ms == Bound(binds, "module") IN
    [i \in 1..Len(ms) |->
        UseStmt(<<"allow(unused_imports)">>, "pub", <<"super">> \o ms[i].val)]

\* extend! re-exporting the parent scope instead of importing it.
extendTranscribe_Pub(binds) ==
    << UseStmt(<<>>, "pub", <<"super">>) >>

extendTranscribe(binds) ==
    << UseStmt(<<>>, "priv", <<"super">>) >>

TranscribeOf(m, binds) ==
    CASE m = "bundle"  -> bundleTranscribe(binds)
      [] m = "expose"  -> exposeTranscribe(binds)
      [] m = "package" -> packageTranscribe(binds)
      [] m = "extend"  -> extendTranscribe(binds)

\* The whole expansion of one invocation, as a function of its text.
ExpansionOf(m, toks) ==
    IF Accepts(MatcherOf(m), toks)
    THEN [ok |-> TRUE, stmts |-> TranscribeOf(m, BindingsOf(MatcherOf(m), toks))]
    ELSE [ok |-> FALSE, stmts |-> <<>>]

\* ------------------------------------------- external discovery capability
\* automod::dir! is an external crate: a fixed environment in which the
\* directory "p" holds the files a and b and the directory "q" is missing.
\* Anything that is not a string literal is not a path for it.
NoModules == [ok |-> TRUE, mods |-> {}]

Capability(args) ==
    IF args = << "\"p\"" >>
    THEN [ok |-> TRUE, mods |-> {"a", "b"}]
    ELSE [ok |-> FALSE, mods |-> {}]

RECURSIVE HostResult(_)
HostResult(stmts) ==
    IF stmts = <<>> THEN NoModules
    ELSE LET s == Head(stmts)
             r == HostResult(Tail(stmts))
             c == IF s.kind = "macro_call" THEN Capability(s.args) ELSE NoModules
         IN [ok |-> c.ok /\ r.ok, mods |-> c.mods \cup r.mods]

\* ------------------------------------------------------------ behaviour
Init ==
    /\ macro \in Macros
    /\ tokens \in TokenSeqs
    /\ ctx \in Contexts
    /\ pc = "start"
    /\ bindings = <<>>
    /\ out = <<>>
    /\ declared = NoModules

\* The invocation is matched against the macro's only rule.
Match ==
    /\ pc = "start"
    /\ IF Accepts(MatcherOf(macro), tokens)
       THEN /\ bindings' = BindingsOf(MatcherOf(macro), tokens)
            /\ pc' = "matched"
       ELSE /\ bindings' = bindings
            /\ pc' = "failed"
    /\ UNCHANGED <<macro, tokens, ctx, out, declared>>

\* The rule's right-hand side is transcribed with the bound fragments.
Transcribe ==
    /\ pc = "matched"
    /\ out' = TranscribeOf(macro, bindings)
    /\ pc' = "expanded"
    /\ UNCHANGED <<macro, tokens, ctx, bindings, declared>>

\* The host compiler processes the emitted items at the invocation site.
HostExpand ==
    /\ pc = "expanded"
    /\ declared' = HostResult(out)
    /\ pc' = "done"
    /\ UNCHANGED <<macro, tokens, ctx, bindings, out>>

Next == Match \/ Transcribe \/ HostExpand

Spec == Init /\ [][Next]_vars

TypeOK ==
    /\ macro \in Macros
    /\ tokens \in TokenSeqs
    /\ ctx \in Contexts
    /\ pc \in {"start", "matched", "failed", "expanded", "done"}
    /\ declared.ok \in BOOLEAN

\* ======================================================================
\* Properties
\* ======================================================================
ReExport == {"expose", "package"}

Expanded == pc \in {"expanded", "done"}

\* m_1 , m_2 , ... , m_N  (N >= 0, no trailing comma)
IsIdentList(toks) ==
    /\ Len(toks) = 0 \/ Len(toks) % 2 = 1
    /\ \A i \in 1..Len(toks) :
          IF i % 2 = 1 THEN toks[i] \in Idents ELSE toks[i] = Comma

IdsOf(toks) == [i \in 1..((Len(toks) + 1) \div 2) |-> toks[2 * i - 1]]

Front(toks) == SubSeq(toks, 1, Len(toks) - 1)

HasTrailingComma(toks) ==
    /\ toks # <<>>
    /\ toks[Len(toks)] = Comma
    /\ IsIdentList(Front(toks))

WellFormedList(toks) == IsIdentList(toks) \/ HasTrailingComma(toks)

ListOf(toks) == IF IsIdentList(toks) THEN toks ELSE Front(toks)

\* C1: expose!(m_1, ..., m_N) emits exactly N statements, the i-th being
\* the public glob re-export `pub use m_i::*;` of the i-th identifier,
\* unqualified, in input order.
C1_ExposeOneToOne ==
    (macro = "expose" /\ IsIdentList(tokens)) =>
        /\ pc # "failed"
        /\ Expanded =>
             /\ Len(out) = Len(IdsOf(tokens))
             /\ \A i \in 1..Len(out) :
                   /\ out[i].kind = "use"
                   /\ out[i].vis = "pub"
                   /\ out[i].glob
                   /\ out[i].path = << IdsOf(tokens)[i] >>

C1_Witness ==
    /\ macro = "expose"
    /\ tokens = <<"b", ",", "a">>
    /\ pc = "expanded"
    /\ Len(out) = 2

Qualify(s) == [s EXCEPT !.path = <<"super">> \o @]

\* C2: package! and expose! accept the same invocations, and on acceptance
\* their outputs agree statement by statement except that package! names
\* super::m_i where expose! names m_i.
C2_PackageIsQualifiedExpose ==
    /\ (macro = "package" /\ pc \in {"failed", "expanded", "done"}) =>
          LET e == ExpansionOf("expose", tokens) IN
          /\ (pc = "failed") <=> ~e.ok
          /\ Expanded =>
               /\ Len(out) = Len(e.stmts)
               /\ \A i \in 1..Len(out) : out[i] = Qualify(e.stmts[i])
    /\ (macro = "expose" /\ pc \in {"failed", "expanded", "done"}) =>
          LET p == ExpansionOf("package", tokens) IN
          /\ (pc = "failed") <=> ~p.ok
          /\ Expanded =>
               /\ Len(out) = Len(p.stmts)
               /\ \A i \in 1..Len(out) : p.stmts[i] = Qualify(out[i])

C2_Witness ==
    /\ macro = "package"
    /\ tokens = <<"a", ",", "b", ",">>
    /\ pc = "expanded"
    /\ Len(out) = 2

\* C3: extend!() always emits exactly one statement, in every surrounding
\* context: the non-public glob import of the parent scope, `use super::*;`.
C3_ExtendOneImport ==
    (macro = "extend" /\ tokens = <<>>) =>
        /\ pc # "failed"
        /\ Expanded =>
             /\ Len(out) = 1
             /\ out[1].kind = "use"
             /\ out[1].vis # "pub"
             /\ out[1].glob
             /\ out[1].path = <<"super">>

C3_Witness ==
    /\ macro = "extend"
    /\ tokens = <<>>
    /\ ctx = "nested_module"
    /\ pc = "expanded"
    /\ Len(out) = 1

\* C4: expose!() and package!() with zero identifiers are accepted and
\* emit zero statements.
C4_EmptyListNoOp ==
    (macro \in ReExport /\ tokens = <<>>) =>
        /\ pc # "failed"
        /\ out = <<>>

C4_Witness ==
    /\ macro \in ReExport
    /\ tokens = <<>>
    /\ pc = "expanded"

\* C6: bundle!(p) emits exactly one delegation to automod::dir! with the
\* argument forwarded unchanged and nothing else, so what gets declared is
\* exactly what the capability produces for p, its failure included.
C6_BundleDelegates ==
    /\ (macro = "bundle" /\ Len(tokens) = 1 /\ tokens[1] \in StrLits) =>
          pc # "failed"
    /\ (macro = "bundle" /\ Expanded) =>
          /\ Len(out) = 1
          /\ out[1].kind = "macro_call"
          /\ out[1].path = <<"automod", "dir">>
          /\ out[1].args = tokens
    /\ (macro = "bundle" /\ pc = "done") =>
          declared = Capability(tokens)

C6_Witness ==
    /\ macro = "bundle"
    /\ tokens = << "\"q\"" >>
    /\ pc = "done"
    /\ ~declared.ok

\* C7: bundle! accepts exactly one argument, and only a string literal.
C7_BundleLiteralOnly ==
    (macro = "bundle" /\ pc \in {"matched", "expanded", "done"}) =>
        /\ Len(tokens) = 1
        /\ tokens[1] \in StrLits

\* C8: no de-duplication: an identifier that occurs k times in the list is
\* named by exactly k statements, at the positions of its occurrences, and
\* the repetition is not an error.
C8_NoDeduplication ==
    (macro \in ReExport /\ WellFormedList(tokens)) =>
        /\ pc # "failed"
        /\ Expanded =>
             \A m \in Idents :
                { i \in 1..Len(out) : out[i].path[Len(out[i].path)] = m }
                  = { (j + 1) \div 2 : j \in { k \in 1..Len(tokens) : tokens[k] = m } }

C8_Witness ==
    /\ macro = "expose"
    /\ tokens = <<"a", ",", "a">>
    /\ pc = "expanded"
    /\ Len(out) = 2

Malformed ==
    \/ macro \in ReExport /\ ~WellFormedList(tokens)
    \/ macro = "extend" /\ tokens # <<>>

\* C9: a malformed invocation of expose!, package! or extend! fails as a
\* whole and emits nothing, even when a prefix of the list is well-formed.
C9_AllOrNothing ==
    Malformed =>
        /\ pc \in {"start", "failed"}
        /\ bindings = <<>>
        /\ out = <<>>
        /\ declared = NoModules

C9_Witness ==
    /\ macro = "expose"
    /\ tokens = <<"a", ",", "b", "1">>
    /\ pc = "failed"
    /\ out = <<>>

ConsecutiveCommas(toks) ==
    \E i \in 1..(Len(toks) - 1) : toks[i] = Comma /\ toks[i + 1] = Comma

LeadingComma(toks) ==
    Len(toks) >= 2 /\ toks[1] = Comma /\ toks[2] \in Idents

\* C10: one trailing comma changes nothing (a lone comma is accepted and
\* emits nothing); two or more trailing commas, a leading comma before an
\* identifier, or two consecutive commas are rejected.
C10_TrailingComma ==
    /\ (macro \in ReExport /\ HasTrailingComma(tokens)) =>
          LET e == ExpansionOf(macro, Front(tokens)) IN
          /\ e.ok
          /\ pc # "failed"
          /\ Expanded => out = e.stmts
    /\ (macro \in ReExport /\ (ConsecutiveCommas(tokens) \/ LeadingComma(tokens))) =>
          /\ pc \in {"start", "failed"}
          /\ out = <<>>

C10_Witness ==
    /\ macro = "expose"
    /\ tokens = <<"a", ",", "b", ",">>
    /\ pc = "expanded"
    /\ Len(out) = 2
====
